---- MODULE Spec2Model ----
(***************************************************************************)
(* Resume screening in HRMS: the Celery task screen_resume_task            *)
(* (resumes/tasks.py), the pipeline wrapper run_ml_screening               *)
(* (resumes/ml_inference.py) and the Resume / Candidate rows it writes.    *)
(*                                                                         *)
(* One task execution is split at its database statements: the SELECT of   *)
(* the Resume, the UPDATE of the Resume, the UPDATE of the Candidate and   *)
(* the UPDATE of error_message.  The pipeline itself is a local            *)
(* computation and is folded into the step that follows it.                *)
(***************************************************************************)
EXTENDS Integers, Sequences, FiniteSets, TLC

\* ------------------------------------------------------------------ bounds
NumTasks == 2
NumResumes == 1
MaxNow == 2
NumBatchRows == 7
NumPairResumes == 2
\* Grid resolution of the component values of a scoring call.
GridPoints == 4
\* Longest required-skills list of a mocked screening call.
MaxRequired == 5
\* Longest extracted-skills list of a matching call.
MaxSkills == 3
\* Threads of one worker process and accessor calls each of them makes.
NumThreads == 2
MaxAccessorCalls == 2
\* Upload requests, which may overlap.
NumUploads == 2
\* Attendance requests, which may overlap, and the latest time of day.
NumAttendanceRequests == 2
MaxTime == 2
\* Account requests in flight, users in the table, and requests in a run.
NumAccountRequests == 2
MaxUsers == 2
MaxAccountOps == 5
MaxBatchCalls == 2

\* ------------------------------------------------------- program constants
MaxRetries == 3
DecisionThreshold == 6000
WEmbedding == 50
WSkill == 35
WNerBonus == 15
\* 1.0 in the fixed-point unit of the signals (1 = 0.0001).
One == 10000

TaskIds == 1..NumTasks
ResumeIds == 1..NumResumes
CandidateIds == 1..NumResumes

NoExc == "None"
NoScore == -1
NullDecision == "NULL"
NullTime == 0

VARIABLES resumeDb, candidateDb, tasks, now, lastOutcome, firstRun
\* call: one invocation of a function of ml_inference.py, its arguments and
\* what it returned; batch: the rows and the queue of a batch dispatch.
VARIABLES call, batch

\* loaders: the lazily built model objects of one worker process and the
\* threads calling their accessors; uploads: the rows and the queue the
\* resume upload endpoint works on; attendance: the Attendance table and the
\* requests in flight on it; accounts: the User table, its audit log and the
\* tokens issued.
VARIABLES loaders, uploads, attendance, accounts

screening == <<resumeDb, candidateDb, tasks, now, lastOutcome, firstRun>>

aux == <<call, batch, loaders, uploads, attendance, accounts>>

vars == <<resumeDb, candidateDb, tasks, now, lastOutcome, firstRun, call, batch,
          loaders, uploads, attendance, accounts>>

\* ------------------------------------------------------------ input files
\* A stored resume file: the extension of its name as stored, and what the
\* document contains ("corrupt" cannot be opened by the extractor).
Files ==
    { [ext |-> ".pdf",  content |-> "strong"],
      [ext |-> ".DOCX", content |-> "weak"],
      [ext |-> ".pdf",  content |-> "corrupt"],
      [ext |-> ".txt",  content |-> "strong"] }

\* str.lower() on the strings the model uses.
Lower(s) ==
    CASE s = ".PDF"   -> ".pdf"
      [] s = ".Pdf"   -> ".pdf"
      [] s = ".DOCX"  -> ".docx"
      [] s = ".TXT"   -> ".txt"
      [] s = ".DOC"   -> ".doc"
      [] s = "Python" -> "python"
      [] s = "Django" -> "django"
      [] s = "SQL"    -> "sql"
      [] s = "Excel"  -> "excel"
      [] OTHER        -> s

\* The characters of the strings matched_skills is computed on.
Chars(s) ==
    CASE s = "Python" -> <<"P", "y", "t", "h", "o", "n">>
      [] s = "Django" -> <<"D", "j", "a", "n", "g", "o">>
      [] s = "SQL" -> <<"S", "Q", "L">>
      [] s = "Excel" -> <<"E", "x", "c", "e", "l">>
      [] s = "Go" -> <<"G", "o">>
      [] s = "Django and PYTHON" -> <<"D", "j", "a", "n", "g", "o", " ", "a", "n", "d", " ", "P", "Y", "T", "H", "O", "N">>
      [] s = "sql, go" -> <<"s", "q", "l", ",", " ", "g", "o">>
      [] s = "cv.pdf" -> <<"c", "v", ".", "p", "d", "f">>
      [] s = "CV.PDF" -> <<"C", "V", ".", "P", "D", "F">>
      [] s = "cv.docx" -> <<"c", "v", ".", "d", "o", "c", "x">>
      [] s = "cv.txt" -> <<"c", "v", ".", "t", "x", "t">>
      [] s = "cv.pdf.exe" -> <<"c", "v", ".", "p", "d", "f", ".", "e", "x", "e">>
      [] s = "pdf" -> <<"p", "d", "f">>
      [] s = ".pdf" -> <<".", "p", "d", "f">>
      [] s = ".docx" -> <<".", "d", "o", "c", "x">>
      [] OTHER -> <<>>

\* str.lower() on one character.
LowerChar(c) ==
    CASE c = "C" -> "c"
      [] c = "D" -> "d"
      [] c = "E" -> "e"
      [] c = "F" -> "f"
      [] c = "G" -> "g"
      [] c = "H" -> "h"
      [] c = "L" -> "l"
      [] c = "N" -> "n"
      [] c = "O" -> "o"
      [] c = "P" -> "p"
      [] c = "Q" -> "q"
      [] c = "S" -> "s"
      [] c = "T" -> "t"
      [] c = "V" -> "v"
      [] c = "Y" -> "y"
      [] OTHER -> c

\* str.lower() on a string given by its characters.
LowerChars(cs) == [i \in 1..Len(cs) |-> LowerChar(cs[i])]

\* a in b for two strings given by their characters.
IsSubstring(a, b) ==
    \E i \in 0..(Len(b) - Len(a)) : \A k \in 1..Len(a) : b[i + k] = a[k]

\* The description of the job the resumes of the screening model were
\* uploaded to.
JobDescription == "Django and PYTHON"

\* What the external extractor and scorer return for a readable document:
\* the skills list in extractor order, the raw cosine similarity and the
\* skill-overlap and NER-bonus components, in units of 0.0001.
Signals(content) ==
    IF content = "strong"
    THEN [skills |-> <<"Python", "Django", "SQL">>,
          embedding |-> 8000, skill |-> 10000, ner |-> 0]
    ELSE [skills |-> <<"Excel">>, embedding |-> 4000, skill |-> 0, ner |-> 2000]

\* HybridRanker.hybrid_score: final_score = 0.50 e + 0.35 s + 0.15 n, with the
\* weights in percent, so in units of 0.000001.
HybridScore(e, s, n) == WEmbedding * e + WSkill * s + WNerBonus * n

\* The dict hybrid_score returns: the fused score and its three components.
HybridResult(e, s, n) ==
    [final_score |-> HybridScore(e, s, n), embedding |-> e,
     skill_overlap |-> s, ner_bonus |-> n]

\* The nearest integer to num / den, an exact half going to the even one
\* (round() of Python on a value that is represented exactly).
RoundDiv(num, den) ==
    LET q == num \div den
        twice == 2 * (num % den)
    IN  IF twice < den THEN q
        ELSE IF twice > den THEN q + 1
        ELSE IF q % 2 = 0 THEN q ELSE q + 1

\* Variant: the scaled value is cut to 2 decimals instead of rounded.
PercentTruncated(v, scale) == (v * 100) \div (scale \div 100)

\* round(float(x) * 100, 2) for x = v / scale: v * 100 is the percentage in
\* units of 1 / scale, rounded to a whole number of hundredths.
PercentRounded(v, scale) == RoundDiv(v * 100, scale \div 100)

\* Variant: only the upper bound is enforced.
ClampUpperOnly(x) == IF x > One THEN One ELSE x

\* max(0.0, min(1.0, embedding_score))
Clamp(x) == IF x > One THEN One ELSE IF x < 0 THEN 0 ELSE x

\* Variant: the threshold is compared strictly.
DecisionStrict(final_score) ==
    IF final_score > DecisionThreshold THEN "SHORTLISTED" ELSE "REJECTED"

\* decision = "SHORTLISTED" if final_score >= 60 else "REJECTED"
Decision(final_score) ==
    IF final_score >= DecisionThreshold THEN "SHORTLISTED" ELSE "REJECTED"

\* Variant: the skill is looked up without lower-casing either side.
MatchedSkillsCaseSensitive(extracted, job_description) ==
    LET InJob(skill) == IsSubstring(Chars(skill), Chars(job_description))
    IN  SelectSeq(extracted, InJob)

\* [skill for skill in extracted_skills if skill.lower() in job_desc_lower]
MatchedSkillsIn(extracted, job_description) ==
    LET job_desc_lower == LowerChars(Chars(job_description))
        InJob(skill) == IsSubstring(LowerChars(Chars(skill)), job_desc_lower)
    IN  SelectSeq(extracted, InJob)

MatchedSkills(extracted) == MatchedSkillsIn(extracted, JobDescription)

Raise(e) ==
    [exc |-> e, score |-> 0, embedding_score |-> 0, skill_score |-> 0,
     ner_bonus |-> 0, passed_embedding |-> 0,
     extracted_skills |-> <<>>, matched_skills |-> <<>>,
     decision |-> NullDecision]

NoResult == Raise(NoExc)

\* Lines 180-237 of run_ml_screening: clamp the similarity, fuse the three
\* signals, scale and round, decide, and build the returned dict
\* (passed_embedding is the embedding_score argument given to the ranker).
ScoreSignals(sig) ==
    LET embedding == Clamp(sig.embedding)
        hybrid == HybridResult(embedding, sig.skill, sig.ner)
        final == PercentRounded(hybrid.final_score, One * 100)
    IN  [exc |-> NoExc,
         score |-> final,
         embedding_score |-> PercentRounded(hybrid.embedding, One),
         skill_score |-> PercentRounded(hybrid.skill_overlap, One),
         ner_bonus |-> hybrid.ner_bonus,
         passed_embedding |-> embedding,
         extracted_skills |-> sig.skills,
         matched_skills |-> MatchedSkills(sig.skills),
         decision |-> Decision(final)]

\* Variant: the final else branch reads the file as a PDF instead of raising.
ParseResumeFileLenient(file) ==
    IF file.content = "corrupt" THEN "ExtractionError" ELSE NoExc

\* parse_resume_file: the extension is lower-cased, .pdf and .docx go to
\* their extractor, anything else raises ValueError.
ParseResumeFile(file) ==
    LET ext == Lower(file.ext)
    IN  IF ext \in {".pdf", ".docx"}
        THEN IF file.content = "corrupt" THEN "ExtractionError" ELSE NoExc
        ELSE "UnsupportedFormat"

\* run_ml_screening: mlUp is whether the ML backend could be imported and
\* initialised in the worker that runs this attempt.
RunMlScreening(file, mlUp) ==
    IF ~mlUp THEN Raise("ScorerUnavailable")
    ELSE IF ParseResumeFile(file) # NoExc THEN Raise(ParseResumeFile(file))
    ELSE ScoreSignals(Signals(file.content))

\* run_ml_screening on each stored file of the screening model.
ScreeningOutcome ==
    [file \in Files, mlUp \in BOOLEAN |-> RunMlScreening(file, mlUp)]

\* The calls run_ml_screening makes, in order, up to the one that raises.
PipelineSteps(file, mlUp) ==
    IF ~mlUp THEN <<>>
    ELSE IF ParseResumeFile(file) = "UnsupportedFormat" THEN <<"parse_resume_file">>
    ELSE IF ParseResumeFile(file) # NoExc
    THEN <<"parse_resume_file", "extract_text">>
    ELSE <<"parse_resume_file", "extract_text", "clean_text", "encode",
           "compute_similarity", "extract_entities", "hybrid_score">>

\* str(exc)
ExcStr(e) ==
    CASE e = "UnsupportedFormat" -> "Unsupported resume format"
      [] e = "ExtractionError"   -> "cannot open document"
      [] e = "ScorerUnavailable" -> "ML pipeline is not available"
      [] e = "DatabaseError"     -> "database error"
      [] OTHER                   -> ""

\* ------------------------------------------------------------------- rows
NewResume(c, f) ==
    [candidate |-> c, resume_file |-> f,
     extracted_skills |-> <<>>, matched_skills |-> <<>>,
     match_score |-> 0, decision |-> NullDecision,
     screened_at |-> NullTime, error_message |-> ""]

NewCandidate == [match_score |-> NoScore, status |-> "PENDING"]

NoFile == [ext |-> "", content |-> ""]

NoCall == [op |-> "none"]

NoBatch == [op |-> "none"]

\* The value of a variable in the specifications that do not use it.
Unused == [op |-> "none"]

OthersUnused ==
    /\ loaders = Unused
    /\ uploads = Unused
    /\ attendance = Unused
    /\ accounts = Unused

NewTask ==
    [pc |-> "idle", rid |-> 0, retries |-> 0, file |-> NoFile, candidate |-> 0,
     exc |-> NoExc, result |-> NoResult,
     attempts |-> 0, handed |-> NoExc, errSaveFailed |-> FALSE,
     wroteResume |-> FALSE, overlapped |-> FALSE]

NoSnapshot ==
    [taken |-> FALSE,
     resume |-> [match_score |-> 0, extracted_skills |-> <<>>,
                 matched_skills |-> <<>>, decision |-> NullDecision],
     candidate |-> NewCandidate]

Init ==
    /\ \E cf \in [ResumeIds -> CandidateIds], ff \in [ResumeIds -> Files] :
           /\ \A r \in ResumeIds : cf[r] <= r
           /\ resumeDb = [r \in ResumeIds |-> NewResume(cf[r], ff[r])]
           /\ candidateDb = [c \in {cf[r] : r \in ResumeIds} |-> NewCandidate]
    /\ tasks = [t \in TaskIds |-> NewTask]
    /\ now = 1
    /\ lastOutcome = [r \in ResumeIds |-> "none"]
    /\ firstRun = [r \in ResumeIds |-> NoSnapshot]
    /\ call = NoCall
    /\ batch = NoBatch
    /\ OthersUnused

\* ------------------------------------------------------------ task helpers
Active(t) == tasks[t].pc \in {"running", "resume_saved", "failing"}

\* Variant: DoesNotExist is treated like any other failure of the attempt.
AfterLoadRaise(found) == IF found THEN "running" ELSE "failing"

\* Resume.objects.select_related(...).get(id=resume_id) / DoesNotExist.
AfterLoad(found) == IF found THEN "running" ELSE "returned"

\* Variant: the skill lists are extended instead of replaced.
ResumeResultAppend(row, result, stamp) ==
    [row EXCEPT !.match_score = result.score,
                !.extracted_skills = @ \o result.extracted_skills,
                !.matched_skills = @ \o result.matched_skills,
                !.decision = result.decision,
                !.screened_at = stamp,
                !.error_message = ""]

\* The six assignments and resume.save(update_fields=[...]) of the success
\* path.
ResumeResultWrite(row, result, stamp) ==
    [row EXCEPT !.match_score = result.score,
                !.extracted_skills = result.extracted_skills,
                !.matched_skills = result.matched_skills,
                !.decision = result.decision,
                !.screened_at = stamp,
                !.error_message = ""]

\* candidate.match_score / candidate.status and candidate.save(update_fields).
CandidateResultWrite(row, result) ==
    [row EXCEPT !.match_score = result.score, !.status = result.decision]

\* Variant: the handler saves the row without assigning error_message.
ErrorWriteSkipped(row, exc) == row

\* resume.error_message = str(exc); resume.save(update_fields=["error_message"]).
ErrorWrite(row, exc) == [row EXCEPT !.error_message = ExcStr(exc)]

\* Variant: a failure of the error save replaces the exception being handled.
RetryExcMasked(exc, secondary) == IF secondary # NoExc THEN secondary ELSE exc

\* The exception given to self.retry(exc=...): the one bound by the outer
\* `except Exception as exc`; `secondary` is what the inner try swallowed.
RetryExc(exc, secondary) == exc

\* Variant: an exhausted task is left in its handler instead of failing.
RetryDispositionStuck(retries) == IF retries + 1 > MaxRetries THEN "failing" ELSE "pending"

\* Variant: the retry limit is compared one off.
RetryDispositionOffByOne(retries) == IF retries > MaxRetries THEN "failed" ELSE "pending"

\* Task.retry with max_retries=3: request.retries + 1 > max_retries raises
\* exc (the task fails), otherwise the task is re-queued.
RetryDisposition(retries) == IF retries + 1 > MaxRetries THEN "failed" ELSE "pending"

\* ----------------------------------------------------------------- actions
\* screen_resume_task.delay(resume_id): any id may be named, also one whose
\* row is gone.  Task slots are interchangeable, so they are used in order.
Dispatch(t, r) ==
    /\ tasks[t].pc = "idle"
    /\ \A u \in TaskIds : u < t => tasks[u].pc # "idle"
    /\ tasks' = [tasks EXCEPT ![t] = [NewTask EXCEPT !.pc = "pending", !.rid = r]]
    /\ UNCHANGED <<resumeDb, candidateDb, now, lastOutcome, firstRun>>
    /\ UNCHANGED aux

\* Lines 35-39: load the row, or return when it does not exist.
Load(t) ==
    /\ tasks[t].pc = "pending"
    /\ LET r == tasks[t].rid
           found == r \in DOMAIN resumeDb
       IN  tasks' = [tasks EXCEPT ![t] =
                 [@ EXCEPT !.pc = AfterLoad(found),
                           !.file = IF found THEN resumeDb[r].resume_file ELSE NoFile,
                           !.candidate = IF found THEN resumeDb[r].candidate ELSE 0,
                           !.exc = NoExc, !.result = NoResult, !.handed = NoExc,
                           !.errSaveFailed = FALSE, !.wroteResume = FALSE,
                           !.overlapped =
                               found /\ \E u \in TaskIds \ {t} :
                                            tasks[u].rid = r /\ Active(u)]]
    /\ UNCHANGED <<resumeDb, candidateDb, now, lastOutcome, firstRun>>
    /\ UNCHANGED aux

\* Lines 41-63: run the pipeline on the loaded file and save the Resume.
\* The save fails when the row has been deleted since the load or when the
\* database refuses the statement (dbOk = FALSE).  screened_at is
\* timezone.now(), which is later at every write; MaxNow bounds the clock.
RunAndSaveResume(t) ==
    /\ tasks[t].pc = "running"
    /\ \E mlUp \in BOOLEAN, dbOk \in BOOLEAN :
        LET r == tasks[t].rid
            file == tasks[t].file
            result == ScreeningOutcome[file, mlUp]
            saved == result.exc = NoExc /\ dbOk /\ r \in DOMAIN resumeDb
        IN  /\ (result.exc # NoExc) => dbOk
            /\ saved => now <= MaxNow
            /\ now' = IF saved THEN now + 1 ELSE now
            /\ resumeDb' = IF saved
                           THEN [resumeDb EXCEPT ![r] = ResumeResultWrite(@, result, now)]
                           ELSE resumeDb
            /\ tasks' = [tasks EXCEPT ![t] =
                   [@ EXCEPT !.attempts = @ + 1,
                             !.pc = IF saved THEN "resume_saved" ELSE "failing",
                             !.result = IF saved THEN result ELSE NoResult,
                             !.wroteResume = saved,
                             !.exc = IF result.exc # NoExc THEN result.exc
                                     ELSE IF saved THEN NoExc ELSE "DatabaseError"]]
    /\ UNCHANGED <<candidateDb, lastOutcome, firstRun>>
    /\ UNCHANGED aux

\* Lines 65-76: save the Candidate projection; the task then returns.
SaveCandidate(t) ==
    /\ tasks[t].pc = "resume_saved"
    /\ \E dbOk \in BOOLEAN :
        LET r == tasks[t].rid
            c == tasks[t].candidate
            saved == dbOk /\ c \in DOMAIN candidateDb
            cand == CandidateResultWrite(candidateDb[c], tasks[t].result)
        IN  /\ candidateDb' = IF saved THEN [candidateDb EXCEPT ![c] = cand]
                              ELSE candidateDb
            /\ tasks' = [tasks EXCEPT ![t] =
                   [@ EXCEPT !.pc = IF saved THEN "succeeded" ELSE "failing",
                             !.result = NoResult,
                             !.exc = IF saved THEN NoExc ELSE "DatabaseError"]]
            /\ lastOutcome' = IF saved THEN [lastOutcome EXCEPT ![r] = "success"]
                              ELSE lastOutcome
            /\ firstRun' =
                   IF saved /\ r \in DOMAIN resumeDb /\ ~firstRun[r].taken
                   THEN [firstRun EXCEPT ![r] =
                            [taken |-> TRUE,
                             resume |-> [match_score |-> resumeDb[r].match_score,
                                         extracted_skills |-> resumeDb[r].extracted_skills,
                                         matched_skills |-> resumeDb[r].matched_skills,
                                         decision |-> resumeDb[r].decision],
                             candidate |-> cand]]
                   ELSE firstRun
    /\ UNCHANGED <<resumeDb, now>>
    /\ UNCHANGED aux

\* Lines 78-89: best-effort save of error_message, then self.retry(exc=exc).
RecordError(t) ==
    /\ tasks[t].pc = "failing"
    /\ \E dbOk \in BOOLEAN :
        LET r == tasks[t].rid
            saved == dbOk /\ r \in DOMAIN resumeDb
            secondary == IF saved THEN NoExc ELSE "SecondaryDatabaseError"
        IN  /\ resumeDb' = IF saved
                           THEN [resumeDb EXCEPT ![r] = ErrorWrite(@, tasks[t].exc)]
                           ELSE resumeDb
            /\ tasks' = [tasks EXCEPT ![t] =
                   [@ EXCEPT !.pc = RetryDisposition(tasks[t].retries),
                             !.retries = IF RetryDisposition(tasks[t].retries) = "pending"
                                         THEN @ + 1 ELSE @,
                             !.errSaveFailed = ~saved,
                             !.wroteResume = FALSE,
                             !.handed = RetryExc(tasks[t].exc, secondary)]]
            /\ lastOutcome' = [lastOutcome EXCEPT ![r] = "failure"]
    /\ UNCHANGED <<candidateDb, now, firstRun>>
    /\ UNCHANGED aux

\* CandidateViewSet DELETE: the Candidate row goes, and with it (CASCADE)
\* every Resume of that candidate.
DeleteCandidate(c) ==
    /\ c \in DOMAIN candidateDb
    /\ candidateDb' = [d \in DOMAIN candidateDb \ {c} |-> candidateDb[d]]
    /\ resumeDb' = [r \in {q \in DOMAIN resumeDb : resumeDb[q].candidate # c}
                      |-> resumeDb[r]]
    /\ UNCHANGED <<tasks, now, lastOutcome, firstRun>>
    /\ UNCHANGED aux

Next ==
    \/ \E t \in TaskIds, r \in ResumeIds : Dispatch(t, r)
    \/ \E t \in TaskIds : Load(t)
    \/ \E t \in TaskIds : RunAndSaveResume(t)
    \/ \E t \in TaskIds : SaveCandidate(t)
    \/ \E t \in TaskIds : RecordError(t)
    \/ \E c \in CandidateIds : DeleteCandidate(c)

Spec == Init /\ [][Next]_vars

\* The worker pool runs every queued task and every started attempt to its
\* end: each step of a dispatched task is taken once it stays possible.
FairSpec ==
    /\ Spec
    /\ \A t \in TaskIds :
           /\ WF_vars(Load(t))
           /\ WF_vars(RunAndSaveResume(t))
           /\ WF_vars(SaveCandidate(t))
           /\ WF_vars(RecordError(t))

\* ------------------------------------------------------------------ claims
\* No task is in the middle of an attempt on record r.
Quiescent(r) == \A t \in TaskIds : tasks[t].rid = r => ~Active(t)

ResultFields(row) ==
    [match_score |-> row.match_score, extracted_skills |-> row.extracted_skills,
     matched_skills |-> row.matched_skills, decision |-> row.decision]

\* C1: for every Resume on which no attempt is in progress, screened_at is
\* non-null if and only if the most recent attempt on it succeeded.
C1_ScreenedIffLastSucceeded ==
    \A r \in DOMAIN resumeDb :
        Quiescent(r) =>
            ((resumeDb[r].screened_at # NullTime) <=> (lastOutcome[r] = "success"))

\* C2 (as claimed): one dispatch executes the pipeline at most 3 times.
C2_AtMostThreeExecutions == \A t \in TaskIds : tasks[t].attempts <= 3

\* C2 (amended): one dispatch executes the pipeline at most 4 times, the
\* first attempt plus 3 retries, and once four attempts have run no further
\* attempt is scheduled.
C2_AtMostFourExecutions ==
    \A t \in TaskIds :
        /\ tasks[t].attempts <= 4
        /\ tasks[t].attempts = 4 => tasks[t].pc # "pending"

C2_Witness == \E t \in TaskIds : tasks[t].attempts = 4 /\ tasks[t].pc = "failed"

\* C3: when a dispatch on a record that no attempt ever screened has
\* exhausted its retries, and its last error was saved, the record has a
\* non-empty error_message and a null screened_at.
C3_ExhaustedIsCleanFailure ==
    \A t \in TaskIds :
        LET r == tasks[t].rid
        IN  (/\ tasks[t].pc = "failed"
             /\ ~tasks[t].errSaveFailed
             /\ r \in DOMAIN resumeDb
             /\ r \in DOMAIN firstRun
             /\ ~firstRun[r].taken
             /\ Quiescent(r))
            => /\ resumeDb[r].error_message # ""
               /\ resumeDb[r].screened_at = NullTime

\* C4: an attempt that failed with UnsupportedFormat is never followed by a
\* scheduled retry.
C4_UnsupportedFormatNotRetried ==
    \A t \in TaskIds :
        ~(tasks[t].pc = "pending" /\ tasks[t].retries > 0
          /\ tasks[t].exc = "UnsupportedFormat")

\* C5: when an attempt has failed after its Resume write, the Resume does not
\* carry a screening result that the Candidate does not carry as well.
C5_ResultWritesAtomic ==
    \A t \in TaskIds :
        LET r == tasks[t].rid
            c == tasks[t].candidate
        IN  (/\ tasks[t].pc = "failing"
             /\ tasks[t].wroteResume
             /\ r \in DOMAIN resumeDb
             /\ c \in DOMAIN candidateDb)
            => (resumeDb[r].screened_at # NullTime
                   => /\ candidateDb[c].match_score = resumeDb[r].match_score
                      /\ candidateDb[c].status = resumeDb[r].decision)

\* C6: once attempts that ran concurrently on one record are over, the
\* record does not have screened_at set together with an error_message.
C6_ConcurrentAttemptsConsistent ==
    \A r \in DOMAIN resumeDb :
        (/\ Quiescent(r)
         /\ \E t \in TaskIds : tasks[t].rid = r /\ tasks[t].overlapped)
        => ~(resumeDb[r].screened_at # NullTime /\ resumeDb[r].error_message # "")

\* C7: every successful run of the task leaves the Resume's match_score,
\* skill lists and decision and the Candidate's match_score and status equal
\* to what the first successful run on that record left, and no step of a
\* task adds or removes a row.
C7_RerunIdempotent ==
    [][ /\ \A t \in TaskIds :
             (tasks[t].pc = "resume_saved" /\ tasks'[t].pc = "succeeded") =>
                 LET r == tasks[t].rid
                     c == tasks[t].candidate
                 IN  /\ firstRun'[r].taken
                     /\ r \in DOMAIN resumeDb' =>
                            ResultFields(resumeDb'[r]) = firstRun'[r].resume
                     /\ candidateDb'[c] = firstRun'[r].candidate
        /\ tasks' # tasks =>
               /\ DOMAIN resumeDb' = DOMAIN resumeDb
               /\ DOMAIN candidateDb' = DOMAIN candidateDb ]_vars

C7_Witness ==
    \E t, u \in TaskIds :
        /\ t # u
        /\ tasks[t].rid = tasks[u].rid
        /\ tasks[t].pc = "succeeded"
        /\ tasks[u].pc = "succeeded"

\* C8: a task that starts when its Resume row does not exist returns: it
\* runs no pipeline, raises nothing, writes no row, and is never run again.
C8_MissingRecordReturns ==
    [][ \A t \in TaskIds :
          /\ (/\ tasks[t].pc = "pending"
              /\ tasks[t].rid \notin DOMAIN resumeDb
              /\ tasks'[t] # tasks[t])
             => /\ tasks'[t].pc = "returned"
                /\ tasks'[t].attempts = tasks[t].attempts
                /\ tasks'[t].retries = tasks[t].retries
                /\ tasks'[t].exc = NoExc
                /\ tasks'[t].handed = NoExc
                /\ resumeDb' = resumeDb
                /\ candidateDb' = candidateDb
          /\ tasks[t].pc = "returned" => tasks'[t] = tasks[t] ]_vars

C8_Witness ==
    \E t \in TaskIds :
        /\ tasks[t].pc = "returned"
        /\ tasks[t].rid \notin DOMAIN resumeDb

\* C9: when the save of error_message failed, the exception handed to the
\* retry mechanism, and surfaced once retries are exhausted, is the
\* exception the attempt failed with.
C9_OriginalExceptionKept ==
    \A t \in TaskIds :
        (tasks[t].errSaveFailed /\ tasks[t].pc \in {"pending", "failed"})
        => /\ tasks[t].exc # NoExc
           /\ tasks[t].handed = tasks[t].exc

C9_Witness ==
    \E t \in TaskIds :
        /\ tasks[t].pc = "failed"
        /\ tasks[t].errSaveFailed
        /\ tasks[t].handed = "ExtractionError"

\* C10 (as claimed): after every failed attempt on an existing record the
\* record's error_message is non-empty.
C10_FailureAlwaysRecorded ==
    [][ \A t \in TaskIds :
          (/\ tasks[t].pc = "failing"
           /\ tasks'[t].pc # "failing"
           /\ tasks[t].rid \in DOMAIN resumeDb')
          => resumeDb'[tasks[t].rid].error_message # "" ]_vars

\* C10 (amended): an exception in the pipeline or in a result save sends the
\* attempt to the handler and never to a normal return; the handler ends in
\* a scheduled retry or a terminal failure carrying that exception; and the
\* record's error_message is str(exception) whenever the error save
\* succeeded.
C10_FailureCaughtAndHandled ==
    [][ \A t \in TaskIds :
          /\ (tasks[t].pc \in {"running", "resume_saved"} /\ tasks'[t].exc # NoExc)
             => tasks'[t].pc = "failing"
          /\ (tasks'[t].pc = "succeeded" /\ tasks[t].pc # "succeeded")
             => tasks[t].pc = "resume_saved" /\ tasks'[t].exc = NoExc
          /\ (tasks[t].pc = "failing" /\ tasks'[t].pc # "failing")
             => /\ tasks'[t].pc \in {"pending", "failed"}
                /\ tasks'[t].handed = tasks[t].exc
                /\ tasks[t].exc # NoExc
                /\ ~tasks'[t].errSaveFailed =>
                       /\ tasks[t].rid \in DOMAIN resumeDb'
                       /\ resumeDb'[tasks[t].rid].error_message = ExcStr(tasks[t].exc)
                       /\ resumeDb'[tasks[t].rid].error_message # "" ]_vars

C10_Witness ==
    \E t \in TaskIds :
        /\ tasks[t].pc = "pending"
        /\ tasks[t].retries > 0
        /\ ~tasks[t].errSaveFailed
        /\ tasks[t].rid \in DOMAIN resumeDb
        /\ resumeDb[tasks[t].rid].error_message = ExcStr(tasks[t].exc)
        /\ tasks[t].exc = "DatabaseError"

\* ------------------------------------------------- the HTTP screen endpoint
\* job.required_skills split at its commas, before strip().
JobRequiredItems == <<"Python", " django", "", "Go", "REST ">>

\* The required_skills a job can list when a record is screened (a job can
\* be edited between two requests): the list above, none, and one with a
\* duplicate, of which the mocked extraction matches 3 of 5.
JobRequiredChoices ==
    {JobRequiredItems, <<>>, <<"Python", " django", "REST ", "Go", "Go">>}

\* str.strip() on the strings the model uses.
Strip(s) ==
    CASE s = " django" -> "django"
      [] s = "REST "   -> "REST"
      [] s = " "       -> ""
      [] OTHER         -> s

\* _parse_required_skills: [s.strip() for s in ....split(",") if s.strip()]
ParseRequiredSkills(items) ==
    LET NonEmpty(x) == Strip(x) # ""
        kept == SelectSeq(items, NonEmpty)
    IN  [i \in 1..Len(kept) |-> Strip(kept[i])]

\* The fixed list of "extracted" skills of the mocked screening.
MockExtracted == <<"Python", "Django", "REST", "SQL", "Git", "Docker">>

LowerAll(s) ==
    CASE s = "REST" -> "rest"
      [] s = "Git" -> "git"
      [] s = "Docker" -> "docker"
      [] s = "Go" -> "go"
      [] OTHER -> Lower(s)

\* Lines 65-89 of views.py: the mocked result for a job's required skills.
\* score is matched / required * 100, kept in hundredths of a percent after
\* round(score, 2); the decision is taken on the unrounded score.
MockScreening(items) ==
    LET required == ParseRequiredSkills(items)
        requiredLower == {LowerAll(required[i]) : i \in 1..Len(required)}
        IsRequired(sk) == LowerAll(sk) \in requiredLower
        matched == SelectSeq(MockExtracted, IsRequired)
        n == Len(required)
    IN  [exc |-> NoExc,
         score |-> IF n > 0 THEN RoundDiv(Len(matched) * 10000, n) ELSE 0,
         extracted_skills |-> MockExtracted,
         matched_skills |-> matched,
         decision |-> IF n > 0 /\ Len(matched) * 100 >= 60 * n
                      THEN "SHORTLISTED" ELSE "REJECTED"]

\* The mocked screening for each required_skills list a job can have.
MockOutcome == [items \in JobRequiredChoices |-> MockScreening(items)]

\* Variant: the decision is left out of the save.
ViewResultWriteWithoutDecision(row, result, stamp) ==
    [row EXCEPT !.extracted_skills = result.extracted_skills,
                !.matched_skills = result.matched_skills,
                !.match_score = result.score,
                !.screened_at = stamp]

\* resume.save(update_fields=[extracted_skills, matched_skills, match_score,
\* decision, screened_at]) of ResumeScreenAPIView.post: error_message is
\* neither assigned nor saved.
ViewResultWrite(row, result, stamp) ==
    [row EXCEPT !.extracted_skills = result.extracted_skills,
                !.matched_skills = result.matched_skills,
                !.match_score = result.score,
                !.decision = result.decision,
                !.screened_at = stamp]

\* POST /api/resumes/screen/<resume_id>/: 404 when the row is missing; else
\* the mocked screening, the Resume save and the Candidate save, either of
\* which the database may refuse (the request then ends in an error).  The
\* request dispatches no task.
ScreenPost(r) ==
    /\ r \in DOMAIN resumeDb
    /\ now <= MaxNow
    /\ \E resumeOk \in BOOLEAN, candOk \in BOOLEAN, items \in JobRequiredChoices :
        LET result == MockOutcome[items]
            c == resumeDb[r].candidate
        IN  /\ ~resumeOk => candOk
            /\ resumeDb' = IF resumeOk
                           THEN [resumeDb EXCEPT ![r] = ViewResultWrite(@, result, now)]
                           ELSE resumeDb
            /\ now' = IF resumeOk THEN now + 1 ELSE now
            /\ candidateDb' =
                   IF resumeOk /\ candOk /\ c \in DOMAIN candidateDb
                   THEN [candidateDb EXCEPT ![c] = CandidateResultWrite(@, result)]
                   ELSE candidateDb
    /\ UNCHANGED <<tasks, lastOutcome, firstRun>>
    /\ UNCHANGED aux

NextHttp ==
    \/ Next
    \/ \E r \in ResumeIds : ScreenPost(r)

HttpSpec == Init /\ [][NextHttp]_vars

\* ------------------------------------------------------- batch dispatch
\* POST /api/resumes/batch-screen/<job_id>/ (urls.py): the view is routed but
\* its body is not part of the sources; it is modelled from the design:
\* every record of the job whose screened_at is null gets one attempt, and the
\* number of attempts scheduled is returned.
BatchRowIds == 1..NumBatchRows

BatchJobs == {"job_a", "job_b"}

\* The ids of a set as a sequence in descending order (Meta.ordering "-id").
RECURSIVE DescendingSeq(_)
DescendingSeq(ids) ==
    IF ids = {} THEN <<>>
    ELSE LET top == CHOOSE x \in ids : \A y \in ids : y <= x
         IN  <<top>> \o DescendingSeq(ids \ {top})

\* Variant: the screened_at filter is left out.
SelectAllOfJob(rows, job) == {r \in DOMAIN rows : rows[r].job = job}

\* Resume.objects.filter(job_id=job_id, screened_at__isnull=True)
SelectUnscreened(rows, job) ==
    {r \in DOMAIN rows : rows[r].job = job /\ rows[r].screened_at = NullTime}

InitBatch ==
    /\ resumeDb = <<>>
    /\ candidateDb = <<>>
    /\ tasks = [t \in TaskIds |-> NewTask]
    /\ now = 1
    /\ lastOutcome = <<>>
    /\ firstRun = <<>>
    /\ call = NoCall
    /\ OthersUnused
    /\ \E jf \in [BatchRowIds -> BatchJobs], sf \in [BatchRowIds -> {NullTime, 1}] :
           batch = [op |-> "batch",
                    rows |-> [r \in BatchRowIds |-> [job |-> jf[r], screened_at |-> sf[r]]],
                    queue |-> <<>>, job |-> "none", count |-> 0, calls |-> 0]

\* One batch dispatch request for a job.
BatchScreen(job) ==
    /\ batch.calls < MaxBatchCalls
    /\ LET selected == SelectUnscreened(batch.rows, job)
       IN  batch' = [batch EXCEPT !.queue = @ \o DescendingSeq(selected),
                                  !.job = job,
                                  !.count = Cardinality(selected),
                                  !.calls = @ + 1]
    /\ UNCHANGED <<screening, call, loaders, uploads, attendance, accounts>>

\* A worker takes the oldest scheduled attempt; the attempt screens its record
\* or fails and leaves it unscreened.
BatchAttempt ==
    /\ batch.queue # <<>>
    /\ \E ok \in BOOLEAN :
        LET r == Head(batch.queue)
        IN  batch' = [batch EXCEPT !.queue = Tail(@),
                                   !.rows[r].screened_at = IF ok THEN 1 ELSE @]
    /\ UNCHANGED <<screening, call, loaders, uploads, attendance, accounts>>

NextBatch ==
    \/ \E job \in BatchJobs : BatchScreen(job)
    \/ BatchAttempt

BatchSpec == InitBatch /\ [][NextBatch]_vars

\* ------------------------------------------- attempts on different records
\* Several Resume rows, readable files, uploaded for one job: by the same
\* candidate e-mail (ResumeUploadSerializer.create finds the Candidate with
\* get_or_create and adds a Resume, so they share the Candidate row) or by
\* different ones.
PairIds == 1..NumPairResumes

ReadableFiles == {f \in Files : ParseResumeFile(f) = NoExc}

InitPair ==
    /\ \E shared \in BOOLEAN, ff \in [PairIds -> ReadableFiles] :
           /\ resumeDb = [r \in PairIds |->
                             NewResume(IF shared THEN 1 ELSE r, ff[r])]
           /\ candidateDb = [c \in (IF shared THEN {1} ELSE PairIds) |-> NewCandidate]
    /\ tasks = [t \in TaskIds |-> NewTask]
    /\ now = 1
    /\ lastOutcome = [r \in PairIds |-> "none"]
    /\ firstRun = [r \in PairIds |-> NoSnapshot]
    /\ call = NoCall
    /\ batch = NoBatch
    /\ OthersUnused

NextPair ==
    \/ \E t \in TaskIds, r \in PairIds : Dispatch(t, r)
    \/ \E t \in TaskIds : Load(t)
    \/ \E t \in TaskIds : RunAndSaveResume(t)
    \/ \E t \in TaskIds : SaveCandidate(t)
    \/ \E t \in TaskIds : RecordError(t)

PairSpec == InitPair /\ [][NextPair]_vars

\* ------------------------------------------------------ the resume upload
UploadIds == 1..NumUploads

\* The jobs that exist, and the job_id values a request can carry.
ExistingJobs == {1}

RequestJobIds == {1, 2}

UploadNames == {"cv.pdf", "CV.PDF", "cv.docx", "cv.txt", "cv.pdf.exe", "pdf"}

\* content_type of the uploaded file; "" when the client sent none.
UploadContentTypes ==
    {"", "application/pdf",
     "application/vnd.openxmlformats-officedocument.wordprocessingml.document",
     "text/plain"}

UploadEmails == {"a@x.org", "b@x.org"}

UploadData ==
    [name : UploadNames, content_type : UploadContentTypes,
     job_id : RequestJobIds, email : UploadEmails]

\* str.endswith(suffix) for two strings given by their characters.
EndsWith(cs, suffix) ==
    /\ Len(suffix) <= Len(cs)
    /\ \A k \in 1..Len(suffix) : cs[Len(cs) - Len(suffix) + k] = suffix[k]

\* Variant: the content type of the file is not looked at.
ValidateResumeFileNameOnly(name, content_type) ==
    \E e \in {".pdf", ".docx"} : EndsWith(LowerChars(Chars(name)), Chars(e))

\* validate_resume_file: the lower-cased name ends with .pdf or .docx, and
\* the content type, when there is one, is an allowed one.
ValidateResumeFile(name, content_type) ==
    /\ \E e \in {".pdf", ".docx"} : EndsWith(LowerChars(Chars(name)), Chars(e))
    /\ content_type # "" =>
           content_type \in
               {"application/pdf",
                "application/vnd.openxmlformats-officedocument.wordprocessingml.document"}

\* validate_job_id: Job.objects.filter(id=value).exists()
ValidateJobId(value, jobs) == value \in jobs

IdleUpload ==
    [pc |-> "idle", data |-> [name |-> "", content_type |-> "", job_id |-> 0, email |-> ""],
     candidate |-> 0, status |-> 0, resume |-> 0]

InitUploads ==
    /\ resumeDb = <<>>
    /\ candidateDb = <<>>
    /\ tasks = [t \in TaskIds |-> NewTask]
    /\ now = 1
    /\ lastOutcome = <<>>
    /\ firstRun = <<>>
    /\ call = NoCall
    /\ batch = NoBatch
    /\ loaders = Unused
    /\ attendance = Unused
    /\ accounts = Unused
    /\ uploads = [op |-> "uploads", jobs |-> ExistingJobs,
                  candidates |-> <<>>, resumes |-> <<>>, queue |-> <<>>,
                  req |-> [q \in UploadIds |-> IdleUpload]]

\* POST /api/resumes/upload/ arrives.
SubmitUpload(q, data) ==
    /\ uploads.req[q].pc = "idle"
    /\ \A p \in UploadIds : p < q => uploads.req[p].pc # "idle"
    /\ uploads' = [uploads EXCEPT !.req[q].pc = "validating", !.req[q].data = data]
    /\ UNCHANGED <<screening, call, batch, loaders, attendance, accounts>>

\* serializer.is_valid(raise_exception=True): a failed field validator ends
\* the request with 400.
ValidateUpload(q) ==
    /\ uploads.req[q].pc = "validating"
    /\ LET d == uploads.req[q].data
           ok == /\ ValidateResumeFile(d.name, d.content_type)
                 /\ ValidateJobId(d.job_id, uploads.jobs)
       IN  uploads' = [uploads EXCEPT
                          !.req[q].pc = IF ok THEN "get" ELSE "done",
                          !.req[q].status = IF ok THEN 0 ELSE 400]
    /\ UNCHANGED <<screening, call, batch, loaders, attendance, accounts>>

\* The ids of the Candidate rows with an email and a job.
CandidatesOf(rows, email, job) ==
    {c \in 1..Len(rows) : rows[c].email = email /\ rows[c].applied_job = job}

\* The SELECT of Candidate.objects.get_or_create inside create(): the row
\* found (0: none), or MultipleObjectsReturned, which ends the request.
GetCandidate(q) ==
    /\ uploads.req[q].pc = "get"
    /\ LET d == uploads.req[q].data
           found == CandidatesOf(uploads.candidates, d.email, d.job_id)
       IN  uploads' =
               IF Cardinality(found) > 1
               THEN [uploads EXCEPT !.req[q].pc = "done", !.req[q].status = 500]
               ELSE [uploads EXCEPT
                        !.req[q].pc = "write",
                        !.req[q].candidate =
                            IF found = {} THEN 0 ELSE CHOOSE c \in found : TRUE]
    /\ UNCHANGED <<screening, call, batch, loaders, attendance, accounts>>

\* The rest of create(), committed as one transaction: the INSERT of the
\* Candidate when none was found (no constraint rejects a second row for
\* the email and job), the candidate save, the INSERT of the Resume; then
\* the 201 response.
CommitUpload(q) ==
    /\ uploads.req[q].pc = "write"
    /\ LET d == uploads.req[q].data
           created == uploads.req[q].candidate = 0
           cands == IF created
                    THEN Append(uploads.candidates,
                                [email |-> d.email, applied_job |-> d.job_id,
                                 resume_path |-> d.name])
                    ELSE [uploads.candidates EXCEPT
                             ![uploads.req[q].candidate].resume_path = d.name]
           cid == IF created THEN Len(cands) ELSE uploads.req[q].candidate
       IN  uploads' = [uploads EXCEPT
                          !.candidates = cands,
                          !.resumes = Append(@, [candidate |-> cid, job |-> d.job_id,
                                                 resume_file |-> d.name]),
                          !.req[q].pc = "done",
                          !.req[q].status = 201,
                          !.req[q].candidate = cid,
                          !.req[q].resume = Len(uploads.resumes) + 1]
    /\ UNCHANGED <<screening, call, batch, loaders, attendance, accounts>>

NextUploads ==
    \E q \in UploadIds :
        \/ \E data \in UploadData : SubmitUpload(q, data)
        \/ ValidateUpload(q)
        \/ GetCandidate(q)
        \/ CommitUpload(q)

UploadSpec == InitUploads /\ [][NextUploads]_vars

\* -------------------------------------------------------------- attendance
AttendanceRequestIds == 1..NumAttendanceRequests

\* Users with role EMPLOYEE, and the dates a record can be for.
Employees == {1, 2}

Dates == {1}

\* A field the request body does not carry: attrs.get(...) is None and the
\* save leaves the column as it is.
Missing == -1

\* The times of day a request can carry for check_in and check_out: a time,
\* an explicit null, or nothing.
TimeInputs == {Missing, NullTime} \cup (1..MaxTime)

\* The validated attrs of a create or full update (employee and date are
\* required) and of a partial update.
FullAttrs ==
    [employee : Employees, date : Dates, check_in : TimeInputs, check_out : TimeInputs]

PartialAttrs ==
    [employee : Employees \cup {Missing}, date : Dates \cup {Missing},
     check_in : TimeInputs, check_out : TimeInputs]

NoRow == [employee |-> 0, date |-> 0, check_in |-> NullTime, check_out |-> NullTime]

IdleAttendanceRequest ==
    [pc |-> "idle", kind |-> "none", pk |-> 0, attrs |-> NoRow,
     instance |-> NoRow, status |-> 0]

\* attrs.get(name) of validate(): None for a missing field and for a null.
AttrsGet(v) == IF v = Missing THEN NullTime ELSE v

\* Lines 53-60 of validate(): both times are given in this request and
\* check_out is not after check_in.
TimesRejected(attrs) ==
    LET check_in == AttrsGet(attrs.check_in)
        check_out == AttrsGet(attrs.check_out)
    IN  check_in # NullTime /\ check_out # NullTime /\ check_out <= check_in

\* The row a save writes: the loaded instance with the supplied fields set.
Merged(instance, attrs) ==
    [employee  |-> IF attrs.employee = Missing THEN instance.employee ELSE attrs.employee,
     date      |-> IF attrs.date = Missing THEN instance.date ELSE attrs.date,
     check_in  |-> IF attrs.check_in = Missing THEN instance.check_in ELSE attrs.check_in,
     check_out |-> IF attrs.check_out = Missing THEN instance.check_out ELSE attrs.check_out]

\* Variant: the table has no unique constraint.
NoUniqueConstraint(rows, pk, row) == FALSE

\* unique_attendance_per_employee_per_date: another row has the employee and
\* date of the row being written.
UniqueViolation(rows, pk, row) ==
    \E k \in 1..Len(rows) :
        k # pk /\ rows[k].employee = row.employee /\ rows[k].date = row.date

\* Lines 62-73 of validate(): the duplicate check, on the employee and date
\* of the request or else of the instance, excluding the instance itself.
DuplicateRejected(rows, pk, instance, attrs) ==
    LET employee == IF attrs.employee = Missing THEN instance.employee ELSE attrs.employee
        date == IF attrs.date = Missing THEN instance.date ELSE attrs.date
    IN  /\ employee # 0 /\ date # 0
        /\ \E k \in 1..Len(rows) :
               k # pk /\ rows[k].employee = employee /\ rows[k].date = date

InitAttendance ==
    /\ resumeDb = <<>>
    /\ candidateDb = <<>>
    /\ tasks = [t \in TaskIds |-> NewTask]
    /\ now = 1
    /\ lastOutcome = <<>>
    /\ firstRun = <<>>
    /\ call = NoCall
    /\ batch = NoBatch
    /\ loaders = Unused
    /\ uploads = Unused
    /\ accounts = Unused
    /\ attendance = [op |-> "attendance", rows |-> <<>>,
                     req |-> [q \in AttendanceRequestIds |-> IdleAttendanceRequest]]

\* POST /api/attendance/ arrives.
SubmitCreate(q, attrs) ==
    /\ attendance.req[q].pc = "idle"
    /\ \A p \in AttendanceRequestIds : p < q => attendance.req[p].pc # "idle"
    /\ attendance' = [attendance EXCEPT
                         !.req[q] = [pc |-> "validating", kind |-> "create", pk |-> 0,
                                     attrs |-> attrs, instance |-> NoRow, status |-> 0]]
    /\ UNCHANGED <<screening, call, batch, loaders, uploads, accounts>>

\* PUT or PATCH /api/attendance/<pk>/ arrives: get_object() loads the
\* instance, or answers 404.
SubmitUpdate(q, kind, pk, attrs) ==
    /\ attendance.req[q].pc = "idle"
    /\ \A p \in AttendanceRequestIds : p < q => attendance.req[p].pc # "idle"
    /\ attendance' =
           IF pk \in 1..Len(attendance.rows)
           THEN [attendance EXCEPT
                    !.req[q] = [pc |-> "validating", kind |-> kind, pk |-> pk,
                                attrs |-> attrs, instance |-> attendance.rows[pk],
                                status |-> 0]]
           ELSE [attendance EXCEPT
                    !.req[q] = [pc |-> "done", kind |-> kind, pk |-> pk,
                                attrs |-> attrs, instance |-> NoRow, status |-> 404]]
    /\ UNCHANGED <<screening, call, batch, loaders, uploads, accounts>>

\* serializer.is_valid(raise_exception=True): validate() on the attrs of
\* this request.
ValidateAttendance(q) ==
    /\ attendance.req[q].pc = "validating"
    /\ LET r == attendance.req[q]
           bad == \/ TimesRejected(r.attrs)
                  \/ DuplicateRejected(attendance.rows, r.pk, r.instance, r.attrs)
       IN  attendance' = [attendance EXCEPT
                             !.req[q].pc = IF bad THEN "done" ELSE "saving",
                             !.req[q].status = IF bad THEN 400 ELSE 0]
    /\ UNCHANGED <<screening, call, batch, loaders, uploads, accounts>>

\* serializer.save(): the INSERT, or the UPDATE of every column from the
\* instance loaded at the start of the request; the unique constraint makes
\* the statement fail with IntegrityError.
SaveAttendance(q) ==
    /\ attendance.req[q].pc = "saving"
    /\ LET r == attendance.req[q]
           row == Merged(r.instance, r.attrs)
       IN  attendance' =
               IF UniqueViolation(attendance.rows, r.pk, row)
               THEN [attendance EXCEPT !.req[q].pc = "done", !.req[q].status = 500]
               ELSE IF r.kind = "create"
               THEN [attendance EXCEPT !.rows = Append(@, row),
                                       !.req[q].pc = "done",
                                       !.req[q].pk = Len(attendance.rows) + 1,
                                       !.req[q].status = 201]
               ELSE [attendance EXCEPT !.rows[r.pk] = row,
                                       !.req[q].pc = "done",
                                       !.req[q].status = 200]
    /\ UNCHANGED <<screening, call, batch, loaders, uploads, accounts>>

NextAttendance ==
    \E q \in AttendanceRequestIds :
        \/ \E attrs \in FullAttrs : SubmitCreate(q, attrs)
        \/ \E pk \in 1..NumAttendanceRequests :
               \/ \E attrs \in FullAttrs : SubmitUpdate(q, "put", pk, attrs)
               \/ \E attrs \in PartialAttrs : SubmitUpdate(q, "patch", pk, attrs)
        \/ ValidateAttendance(q)
        \/ SaveAttendance(q)

AttendanceSpec == InitAttendance /\ [][NextAttendance]_vars

\* ---------------------------------------------------------------- accounts
AccountRequestIds == 1..NumAccountRequests

\* A User row: deactivated_at and last_login_at are NullTime or a time;
\* usable_password is whether a password was set; reset_token is whether a
\* password-reset token made for the row is still valid.
NewUser(withPassword, verified) ==
    [is_active |-> TRUE, deactivated_at |-> NullTime,
     is_email_verified |-> verified, last_login_at |-> NullTime,
     usable_password |-> withPassword, reset_token |-> FALSE]

\* The rows UserManager.create_user makes for an account with a password:
\* an HR user registered as verified, and one left with the default
\* is_email_verified = False.
InitialUsers == {NewUser(TRUE, TRUE), NewUser(TRUE, FALSE)}

IdleAccountRequest == [pc |-> "idle", kind |-> "none", user |-> 0,
                       instance |-> NewUser(FALSE, FALSE), status |-> 0]

InitAccounts ==
    /\ resumeDb = <<>>
    /\ candidateDb = <<>>
    /\ tasks = [t \in TaskIds |-> NewTask]
    /\ now = 1
    /\ lastOutcome = <<>>
    /\ firstRun = <<>>
    /\ call = NoCall
    /\ batch = NoBatch
    /\ loaders = Unused
    /\ uploads = Unused
    /\ attendance = Unused
    /\ \E u \in InitialUsers :
           accounts = [op |-> "accounts", users |-> <<u>>, audit |-> <<>>,
                       tokens |-> <<>>, time |-> 1, ops |-> 0,
                       req |-> [q \in AccountRequestIds |-> IdleAccountRequest]]

AccountSlotFree(q) ==
    /\ accounts.req[q].pc \in {"idle", "done"}
    /\ accounts.ops < MaxAccountOps

\* invite_employee with EmployeeInviteSerializer.create: the employee row
\* without a password and not verified, the CREATED entry, and the token of
\* the invitation link.
InviteEmployee ==
    /\ accounts.ops < MaxAccountOps
    /\ Len(accounts.users) < MaxUsers
    /\ accounts' = [accounts EXCEPT
                       !.users = Append(@, [NewUser(FALSE, FALSE) EXCEPT !.reset_token = TRUE]),
                       !.audit = Append(@, [user |-> Len(accounts.users) + 1,
                                            action |-> "CREATED"]),
                       !.ops = @ + 1]
    /\ UNCHANGED <<screening, call, batch, loaders, uploads, attendance>>

\* forgot_password: a reset link is made unless the user is inactive or
\* deactivated.
ForgotPassword(u) ==
    /\ accounts.ops < MaxAccountOps
    /\ accounts' = [accounts EXCEPT
                       !.users[u].reset_token =
                           IF ~accounts.users[u].is_active
                              \/ accounts.users[u].deactivated_at # NullTime
                           THEN @ ELSE TRUE,
                       !.ops = @ + 1]
    /\ UNCHANGED <<screening, call, batch, loaders, uploads, attendance>>

\* reset_password with the token of a link: refused when the token does not
\* check; else the password is set and the email is verified. A new
\* password makes the tokens made before it invalid.
ResetPassword(u) ==
    /\ accounts.ops < MaxAccountOps
    /\ accounts' =
           IF accounts.users[u].reset_token
           THEN [accounts EXCEPT !.users[u].usable_password = TRUE,
                                 !.users[u].is_email_verified = TRUE,
                                 !.users[u].reset_token = FALSE,
                                 !.ops = @ + 1]
           ELSE [accounts EXCEPT !.ops = @ + 1]
    /\ UNCHANGED <<screening, call, batch, loaders, uploads, attendance>>

\* super().validate(attrs): the credentials authenticate an active user
\* with a usable password.
Authenticates(row) == row.usable_password /\ row.is_active

\* Variant: an unverified email does not refuse the login.
LoginRefusalIgnoresVerification(user) ==
    ~user.is_active \/ user.deactivated_at # NullTime

\* Lines 135-143 of CustomTokenObtainPairSerializer.validate, on the user
\* object the authentication loaded.
LoginRefusal(user) ==
    \/ ~user.is_active \/ user.deactivated_at # NullTime
    \/ ~user.is_email_verified

\* POST login/ with the password of user u: the row is read and the
\* credentials are checked.
LoginAuthenticate(q, u) ==
    /\ AccountSlotFree(q)
    /\ accounts' =
           IF Authenticates(accounts.users[u])
           THEN [accounts EXCEPT
                    !.req[q] = [pc |-> "issue", kind |-> "login", user |-> u,
                                instance |-> accounts.users[u], status |-> 0],
                    !.ops = @ + 1]
           ELSE [accounts EXCEPT
                    !.req[q] = [pc |-> "done", kind |-> "login", user |-> u,
                                instance |-> accounts.users[u], status |-> 401],
                    !.ops = @ + 1]
    /\ UNCHANGED <<screening, call, batch, loaders, uploads, attendance>>

\* The rest of validate(): the checks on the loaded user, then the save of
\* last_login_at and the token pair.
LoginIssue(q) ==
    /\ accounts.req[q].pc = "issue"
    /\ LET u == accounts.req[q].user
       IN  accounts' =
               IF LoginRefusal(accounts.req[q].instance)
               THEN [accounts EXCEPT !.req[q].pc = "done", !.req[q].status = 401]
               ELSE [accounts EXCEPT
                        !.users[u].last_login_at = accounts.time,
                        !.time = @ + 1,
                        !.tokens = Append(@, [user |-> u, at |-> accounts.time]),
                        !.req[q].pc = "done",
                        !.req[q].status = 200]
    /\ UNCHANGED <<screening, call, batch, loaders, uploads, attendance>>

\* DELETE users/<pk>/: get_object() loads the instance that delete() and
\* deactivate() then work on.
DeleteLoad(q, u) ==
    /\ AccountSlotFree(q)
    /\ accounts' = [accounts EXCEPT
                       !.req[q] = [pc |-> "deactivate", kind |-> "delete", user |-> u,
                                   instance |-> accounts.users[u], status |-> 0],
                       !.ops = @ + 1]
    /\ UNCHANGED <<screening, call, batch, loaders, uploads, attendance>>

\* if not self.is_active: return
AlreadyInactive(user) == ~user.is_active

\* deactivate() up to its save(update_fields=["is_active", "deactivated_at"]).
DeactivateSave(q) ==
    /\ accounts.req[q].pc = "deactivate"
    /\ LET u == accounts.req[q].user
       IN  accounts' =
               IF AlreadyInactive(accounts.req[q].instance)
               THEN [accounts EXCEPT !.req[q].pc = "done", !.req[q].status = 204]
               ELSE [accounts EXCEPT
                        !.users[u].is_active = FALSE,
                        !.users[u].deactivated_at = accounts.time,
                        !.time = @ + 1,
                        !.req[q].pc = "audit"]
    /\ UNCHANGED <<screening, call, batch, loaders, uploads, attendance>>

\* UserAuditLog.objects.create(action=DEACTIVATED) of deactivate().
DeactivateAudit(q) ==
    /\ accounts.req[q].pc = "audit"
    /\ accounts' = [accounts EXCEPT
                       !.audit = Append(@, [user |-> accounts.req[q].user,
                                            action |-> "DEACTIVATED"]),
                       !.req[q].pc = "done",
                       !.req[q].status = 204]
    /\ UNCHANGED <<screening, call, batch, loaders, uploads, attendance>>

NextAccounts ==
    \/ InviteEmployee
    \/ \E u \in 1..Len(accounts.users) :
           \/ ForgotPassword(u)
           \/ ResetPassword(u)
           \/ \E q \in AccountRequestIds : LoginAuthenticate(q, u) \/ DeleteLoad(q, u)
    \/ \E q \in AccountRequestIds :
           LoginIssue(q) \/ DeactivateSave(q) \/ DeactivateAudit(q)

AccountSpec == InitAccounts /\ [][NextAccounts]_vars

\* ------------------------------------------------- the lazy model objects
\* The three module-level references of ml_inference.py.
ModelObjects == {"_embedding_scorer", "_entity_extractor", "_hybrid_ranker"}

ThreadIds == 1..NumThreads

\* None, as the value of a module-level reference; an object is named by
\* the ordinal of its construction.
NoObject == 0

IdleThread == [pc |-> "idle", obj |-> "none", got |-> NoObject, calls |-> 0]

InitLoaders ==
    /\ resumeDb = <<>>
    /\ candidateDb = <<>>
    /\ tasks = [t \in TaskIds |-> NewTask]
    /\ now = 1
    /\ lastOutcome = <<>>
    /\ firstRun = <<>>
    /\ call = NoCall
    /\ batch = NoBatch
    /\ uploads = Unused
    /\ attendance = Unused
    /\ accounts = Unused
    /\ loaders = [op |-> "loaders",
                  ref |-> [o \in ModelObjects |-> NoObject],
                  built |-> [o \in ModelObjects |-> 0],
                  thread |-> [th \in ThreadIds |-> IdleThread]]

\* A screening running in thread th calls the accessor of object o.
CallAccessor(th, o) ==
    /\ loaders.thread[th].pc = "idle"
    /\ loaders.thread[th].calls < MaxAccessorCalls
    /\ loaders' = [loaders EXCEPT !.thread[th].pc = "check",
                                  !.thread[th].obj = o,
                                  !.thread[th].calls = @ + 1]
    /\ UNCHANGED <<screening, call, batch, uploads, attendance, accounts>>

\* if _x is None:
CheckIsNone(th) ==
    /\ loaders.thread[th].pc = "check"
    /\ loaders' = [loaders EXCEPT !.thread[th].pc =
                       IF loaders.ref[loaders.thread[th].obj] = NoObject
                       THEN "construct" ELSE "return"]
    /\ UNCHANGED <<screening, call, batch, uploads, attendance, accounts>>

\* _x = X(...): the object is built and the reference is assigned, whatever
\* the reference holds by then.
ConstructAndAssign(th) ==
    /\ loaders.thread[th].pc = "construct"
    /\ LET o == loaders.thread[th].obj
       IN  loaders' = [loaders EXCEPT !.built[o] = @ + 1,
                                      !.ref[o] = loaders.built[o] + 1,
                                      !.thread[th].pc = "return"]
    /\ UNCHANGED <<screening, call, batch, uploads, attendance, accounts>>

\* return _x
ReturnObject(th) ==
    /\ loaders.thread[th].pc = "return"
    /\ loaders' = [loaders EXCEPT !.thread[th].pc = "idle",
                                  !.thread[th].got = loaders.ref[loaders.thread[th].obj]]
    /\ UNCHANGED <<screening, call, batch, uploads, attendance, accounts>>

NextLoaders ==
    \E th \in ThreadIds :
        \/ \E o \in ModelObjects : CallAccessor(th, o)
        \/ CheckIsNone(th)
        \/ ConstructAndAssign(th)
        \/ ReturnObject(th)

LoaderSpec == InitLoaders /\ [][NextLoaders]_vars

\* ------------------------------------------- single calls of the pipeline
\* Component values in [0,1]: an even grid and the values around the
\* decision threshold.
UnitGrid == {k * (One \div GridPoints) : k \in 0..GridPoints} \cup {One, 5999, 6000}

\* Raw cosine similarities the scorer can return: the unit grid, negative
\* similarities and floating-point drift one unit outside [0,1].
RawGrid == UnitGrid \cup {-(One \div 2), -1, One + 1}

\* The stored files a pipeline call is given: every spelling of the
\* extension the model knows, with each kind of content.
PipelineFiles ==
    [ext : {".pdf", ".PDF", ".Pdf", ".docx", ".DOCX", ".txt", ".TXT", ".DOC", ""},
     content : {"strong", "weak", "corrupt"}]

RECURSIVE ListsUpTo(_, _)
\* The sequences of length at most n over the set alphabet.
ListsUpTo(alphabet, n) ==
    IF n = 0 THEN {<<>>}
    ELSE LET shorter == ListsUpTo(alphabet, n - 1)
         IN  shorter \cup {Append(l, a) : l \in shorter, a \in alphabet}

\* The comma-separated items of a job's required_skills text.
RequiredLists == ListsUpTo({"Python", " django", "", "Go", "REST "}, MaxRequired)

ScoreCalls == [op : {"score"}, raw : RawGrid, skill : UnitGrid, ner : UnitGrid]

MockCalls == [op : {"mock"}, items : RequiredLists]

PipelineCalls == [op : {"pipeline"}, file : PipelineFiles, mlUp : BOOLEAN]

\* The skills lists the extractor can return for a resume, and the job
\* description texts they are matched against.
SkillLists == ListsUpTo({"Python", "Go", "SQL", "Excel"}, MaxSkills)

JobTexts == {"Django and PYTHON", "sql, go", "Go", ""}

MatchCalls == [op : {"match"}, skills : SkillLists, job : JobTexts]

NewCall(a) == [op |-> a.op, args |-> a, done |-> FALSE, out |-> NoResult, steps |-> <<>>]

InitCall ==
    /\ resumeDb = <<>>
    /\ candidateDb = <<>>
    /\ tasks = [t \in TaskIds |-> NewTask]
    /\ now = 1
    /\ lastOutcome = <<>>
    /\ firstRun = <<>>
    /\ batch = NoBatch
    /\ OthersUnused
    /\ \E a \in ScoreCalls \cup MockCalls \cup PipelineCalls \cup MatchCalls :
           call = NewCall(a)

\* run_ml_screening from the similarity on, for what the scorer and the
\* extractor returned.
RunScoring ==
    /\ call.op = "score" /\ ~call.done
    /\ call' = [call EXCEPT
                   !.done = TRUE,
                   !.out = ScoreSignals([skills |-> <<>>, embedding |-> call.args.raw,
                                         skill |-> call.args.skill, ner |-> call.args.ner])]
    /\ UNCHANGED <<screening, batch, loaders, uploads, attendance, accounts>>

\* The mocked screening of ResumeScreenAPIView.post for a job's
\* required skills.
RunMock ==
    /\ call.op = "mock" /\ ~call.done
    /\ call' = [call EXCEPT !.done = TRUE, !.out = MockScreening(call.args.items)]
    /\ UNCHANGED <<screening, batch, loaders, uploads, attendance, accounts>>

\* run_ml_screening on a stored file.
RunPipeline ==
    /\ call.op = "pipeline" /\ ~call.done
    /\ call' = [call EXCEPT
                   !.done = TRUE,
                   !.out = RunMlScreening(call.args.file, call.args.mlUp),
                   !.steps = PipelineSteps(call.args.file, call.args.mlUp)]
    /\ UNCHANGED <<screening, batch, loaders, uploads, attendance, accounts>>

\* Lines 198-205 of run_ml_screening: the matched skills of an extracted
\* list for a job description.
RunMatching ==
    /\ call.op = "match" /\ ~call.done
    /\ call' = [call EXCEPT
                   !.done = TRUE,
                   !.out = [NoResult EXCEPT
                              !.extracted_skills = call.args.skills,
                              !.matched_skills =
                                  MatchedSkillsIn(call.args.skills, call.args.job)]]
    /\ UNCHANGED <<screening, batch, loaders, uploads, attendance, accounts>>

NextCall == RunScoring \/ RunMock \/ RunPipeline \/ RunMatching

CallSpec == InitCall /\ [][NextCall]_vars

\* The attempt states of the design: PENDING, RUNNING, SUCCEEDED,
\* RETRY_SCHEDULED, FAILED_TERMINAL (RETURNED: the row did not exist).
AttemptState(task) ==
    CASE task.pc = "idle" -> "NOT_DISPATCHED"
      [] task.pc = "pending" /\ task.retries = 0 -> "PENDING"
      [] task.pc = "pending" /\ task.retries > 0 -> "RETRY_SCHEDULED"
      [] task.pc \in {"running", "resume_saved", "failing"} -> "RUNNING"
      [] task.pc = "succeeded" -> "SUCCEEDED"
      [] task.pc = "failed" -> "FAILED_TERMINAL"
      [] OTHER -> "RETURNED"

AttemptTransitions ==
    { <<"NOT_DISPATCHED", "PENDING">>,
      <<"PENDING", "RUNNING">>, <<"RETRY_SCHEDULED", "RUNNING">>,
      <<"RUNNING", "RUNNING">>,
      <<"RUNNING", "SUCCEEDED">>, <<"RUNNING", "RETRY_SCHEDULED">>,
      <<"RUNNING", "FAILED_TERMINAL">>,
      <<"PENDING", "RETURNED">>, <<"RETRY_SCHEDULED", "RETURNED">> }

\* The record states of the design.
RecordState(row) ==
    IF row.screened_at # NullTime THEN "SCREENED"
    ELSE IF row.error_message # "" THEN "FAILED" ELSE "UNSCREENED"

RecordTransitions ==
    { <<"UNSCREENED", "UNSCREENED">>, <<"UNSCREENED", "SCREENED">>,
      <<"UNSCREENED", "FAILED">>, <<"FAILED", "FAILED">>,
      <<"FAILED", "SCREENED">>, <<"SCREENED", "SCREENED">> }

C12_ScreenedClearsError ==
    [][ \A r \in DOMAIN resumeDb \cap DOMAIN resumeDb' :
          resumeDb'[r].screened_at # resumeDb[r].screened_at
              => resumeDb'[r].error_message = "" ]_vars

\* C13: a record's match_score, skill lists, decision and screened_at are
\* changed only by a step of the asynchronous task, never by the HTTP request.
C13_OnlyTaskWritesResult ==
    [][ \A r \in DOMAIN resumeDb \cap DOMAIN resumeDb' :
          (\/ ResultFields(resumeDb'[r]) # ResultFields(resumeDb[r])
           \/ resumeDb'[r].screened_at # resumeDb[r].screened_at)
              => \E t \in TaskIds :
                     /\ tasks[t].rid = r
                     /\ tasks[t].pc = "running"
                     /\ tasks'[t].pc = "resume_saved" ]_vars

Occurrences(seq, x) == Cardinality({i \in 1..Len(seq) : seq[i] = x})

\* C14: one batch dispatch for a job schedules exactly one attempt for each
\* record of that job whose screened_at is null at that time, none for any
\* other record, and returns the number of attempts it scheduled.
C14_BatchSchedulesUnscreened ==
    [][ batch'.calls # batch.calls =>
          LET added == SubSeq(batch'.queue, Len(batch.queue) + 1, Len(batch'.queue))
          IN  /\ \A r \in BatchRowIds :
                    Occurrences(added, r) =
                        IF /\ batch.rows[r].job = batch'.job
                           /\ batch.rows[r].screened_at = NullTime
                        THEN 1 ELSE 0
              /\ batch'.count = Len(added)
              /\ batch'.rows = batch.rows ]_vars

\* Five unscreened and two screened records of the dispatched job: 5 returned.
C14_Witness ==
    /\ batch.calls = 1
    /\ \A r \in BatchRowIds : batch.rows[r].job = batch.job
    /\ Cardinality({r \in BatchRowIds : batch.rows[r].screened_at # NullTime}) = 2
    /\ batch.count = 5
    /\ Len(batch.queue) = 5

\* C15: an attempt that completes does not overwrite what a completed attempt
\* on a different record wrote: the Candidate row that another record's
\* attempt has written is left as it is.
C15_NoCrossRecordOverwrite ==
    [][ \A t, u \in TaskIds :
          (/\ tasks[t].pc = "resume_saved"
           /\ tasks'[t].pc = "succeeded"
           /\ tasks[u].pc = "succeeded"
           /\ tasks[u].rid # tasks[t].rid
           /\ tasks[u].candidate = tasks[t].candidate)
          => candidateDb'[tasks[t].candidate] = candidateDb[tasks[t].candidate] ]_vars

\* C16: a record that an attempt has screened holds the ner_bonus of that
\* run's result among its fields.
C16_RecordHoldsNerBonus ==
    \A r \in DOMAIN resumeDb :
        \A t \in TaskIds :
            (tasks[t].rid = r /\ tasks[t].pc = "resume_saved")
                => /\ "ner_bonus" \in DOMAIN resumeDb[r]
                   /\ resumeDb[r].ner_bonus = tasks[t].result.ner_bonus

\* C17: the decision a matching run returns is SHORTLISTED exactly when the
\* returned score, rounded to 2 decimals as stored, is at least 60.00, and
\* REJECTED otherwise; this holds for run_ml_screening and for the mocked
\* screening of the endpoint, and a score of exactly 60.00 is SHORTLISTED.
C17_DecisionIffScoreAtLeast60 ==
    (call.op \in {"score", "mock"} /\ call.done)
        => /\ call.out.decision \in {"SHORTLISTED", "REJECTED"}
           /\ call.out.decision = "SHORTLISTED" <=> call.out.score >= 6000

C17_Witness ==
    /\ call.op = "score" /\ call.done
    /\ call.out.score = 6000
    /\ call.out.decision = "SHORTLISTED"

\* C18: for component values e, s, n in [0,1] the returned final score is in
\* [0,100] and is 100 * (0.50 e + 0.35 s + 0.15 n) rounded to the nearest
\* hundredth, and the three weights sum to exactly 1.
C18_FinalScoreIsRoundedFusion ==
    /\ WEmbedding + WSkill + WNerBonus = 100
    /\ (call.op = "score" /\ call.done /\ call.args.raw \in 0..One)
          => LET exact == 50 * call.args.raw + 35 * call.args.skill + 15 * call.args.ner
                 diff == 100 * call.out.score - exact
             IN  /\ call.out.score \in 0..10000
                 /\ 2 * diff <= 100
                 /\ 2 * diff >= -100

C18_Witness ==
    /\ call.op = "score" /\ call.done /\ call.args.raw \in 0..One
    /\ (50 * call.args.raw + 35 * call.args.skill + 15 * call.args.ner) % 100 > 50
    /\ call.out.score = 2100

\* C19 as stated: the embedding score passed to the ranker and the embedding
\* component exposed in the result both lie in [0,1], and a raw value
\* already in [0,1] is passed unchanged.
C19_EmbeddingInUnitInterval ==
    (call.op = "score" /\ call.done)
        => /\ call.out.passed_embedding \in 0..One
           /\ call.out.embedding_score \in 0..100
           /\ call.args.raw \in 0..One => call.out.passed_embedding = call.args.raw

\* C19 amended: the embedding score passed to the ranker lies in [0,1], a raw
\* value already in [0,1] is passed unchanged, a value below 0 becomes 0 and
\* one above 1 becomes 1; the embedding_score exposed in the result is that
\* value in percent, in [0,100].
C19_ClampedThenScaled ==
    (call.op = "score" /\ call.done)
        => /\ call.out.passed_embedding \in 0..One
           /\ call.args.raw \in 0..One => call.out.passed_embedding = call.args.raw
           /\ call.args.raw < 0 => call.out.passed_embedding = 0
           /\ call.args.raw > One => call.out.passed_embedding = One
           /\ call.out.embedding_score \in 0..10000
           /\ call.out.embedding_score * One = call.out.passed_embedding * 10000

C19_Witness ==
    /\ call.op = "score" /\ call.done
    /\ call.args.raw < 0
    /\ call.out.passed_embedding = 0
    /\ call.out.embedding_score = 0

ExtractionSteps ==
    {"extract_text", "clean_text", "encode", "compute_similarity", "extract_entities"}

StepsOf(c) == {c.steps[i] : i \in 1..Len(c.steps)}

SupportedSpellings == {".pdf", ".PDF", ".Pdf", ".docx", ".DOCX"}

\* C20 as stated: a pipeline run on a file whose extension is neither .pdf
\* nor .docx, in any letter case, always fails with the unsupported-format
\* error, before any extraction, cleaning, embedding or entity step.
C20_UnsupportedAlwaysUnsupportedFormat ==
    (call.op = "pipeline" /\ call.done /\ call.args.file.ext \notin SupportedSpellings)
        => /\ call.out.exc = "UnsupportedFormat"
           /\ StepsOf(call) \cap ExtractionSteps = {}

\* C20 amended: such a run always fails before any extraction, cleaning,
\* embedding or entity step; the error is the unsupported-format error when
\* the ML backend is available in the worker and the backend-unavailable
\* error, raised before the extension is looked at, when it is not.
C20_UnsupportedFailsBeforeExtraction ==
    (call.op = "pipeline" /\ call.done /\ call.args.file.ext \notin SupportedSpellings)
        => /\ StepsOf(call) \cap ExtractionSteps = {}
           /\ call.args.mlUp => call.out.exc = "UnsupportedFormat"
           /\ ~call.args.mlUp => /\ call.out.exc = "ScorerUnavailable"
                                 /\ call.steps = <<>>

C20_Witness ==
    /\ call.op = "pipeline" /\ call.done
    /\ call.args.file.ext = ".TXT"
    /\ call.args.mlUp
    /\ call.out.exc = "UnsupportedFormat"
    /\ call.steps = <<"parse_resume_file">>

\* The positions of the extracted list whose skill, lower-cased, occurs as a
\* substring of the lower-cased job description.
MatchingPositions(c) ==
    {i \in 1..Len(c.args.skills) :
        IsSubstring(LowerChars(Chars(c.args.skills[i])), LowerChars(Chars(c.args.job)))}

\* C21: matched_skills is exactly the extracted skills, in the extractor's
\* order, whose lower-cased form is a substring of the lower-cased job
\* description: its k-th element is the skill at the k-th matching position,
\* nothing else is in it, and it is a sub-list of extracted_skills.
C21_MatchedIsMatchingSubsequence ==
    (call.op = "match" /\ call.done)
        => LET pos == MatchingPositions(call)
               matched == call.out.matched_skills
           IN  /\ Len(matched) = Cardinality(pos)
               /\ \A i \in pos :
                      matched[Cardinality({k \in pos : k <= i})] = call.args.skills[i]
               /\ Len(matched) <= Len(call.out.extracted_skills)

\* "Go" is matched inside "Django" and "Python" against "PYTHON"; "SQL" is not.
C21_Witness ==
    /\ call.op = "match" /\ call.done
    /\ call.args.job = "Django and PYTHON"
    /\ call.args.skills = <<"Go", "SQL", "Python">>
    /\ call.out.matched_skills = <<"Go", "Python">>

\* C22: within one worker process each shared model object is constructed at
\* most once, also when accessor calls overlap, and a module-level reference
\* that is set is never replaced or reset.
C22_ModelObjectsBuiltOnce ==
    /\ [](\A o \in ModelObjects : loaders.built[o] <= 1)
    /\ [][\A o \in ModelObjects :
            loaders.ref[o] # NoObject => loaders'.ref[o] = loaders.ref[o]]_vars

\* A request the design rejects: the file name does not end in .pdf or
\* .docx in any letter case, or the content type is a disallowed one, or the
\* job does not exist.
RejectedByDesign(d) ==
    \/ d.name \notin {"cv.pdf", "CV.PDF", "cv.docx"}
    \/ d.content_type = "text/plain"
    \/ d.job_id \notin ExistingJobs

\* C23: an upload that fails validation is answered with the error and
\* leaves the stored state unchanged: it creates or modifies no Candidate
\* and no Resume row, and nothing is enqueued for screening.
C23_InvalidUploadChangesNothing ==
    /\ [](\A q \in UploadIds :
            (uploads.req[q].pc \notin {"idle", "validating"}
                /\ RejectedByDesign(uploads.req[q].data))
              => /\ uploads.req[q].pc = "done"
                 /\ uploads.req[q].status = 400
                 /\ uploads.req[q].resume = 0
                 /\ uploads.req[q].candidate = 0
                 /\ uploads.queue = <<>>)
    /\ [][\A q \in UploadIds :
            (uploads.req[q].pc = "validating" /\ uploads'.req[q].status = 400)
              => /\ uploads'.candidates = uploads.candidates
                 /\ uploads'.resumes = uploads.resumes
                 /\ uploads'.queue = uploads.queue]_vars

C23_Witness ==
    \E q \in UploadIds :
        /\ uploads.req[q].status = 400
        /\ uploads.req[q].data.name = "cv.pdf"
        /\ uploads.req[q].data.content_type = "text/plain"
        /\ uploads.req[q].data.job_id = 1

\* C24: there is at most one Candidate row per (email, applied_job), and
\* every upload that was accepted created exactly one Resume row, linked to
\* that candidate and job, also when uploads overlap.
C24_OneCandidatePerEmailAndJob ==
    /\ \A c1, c2 \in 1..Len(uploads.candidates) :
           (/\ uploads.candidates[c1].email = uploads.candidates[c2].email
            /\ uploads.candidates[c1].applied_job = uploads.candidates[c2].applied_job)
              => c1 = c2
    /\ \A q \in UploadIds :
           uploads.req[q].status = 201
             => /\ uploads.req[q].resume \in 1..Len(uploads.resumes)
                /\ uploads.resumes[uploads.req[q].resume].candidate = uploads.req[q].candidate
                /\ uploads.resumes[uploads.req[q].resume].job = uploads.req[q].data.job_id

\* C25: every stored Attendance record that has both check_in and check_out
\* has check_out after check_in, whatever creates and updates were made.
C25_CheckOutAfterCheckIn ==
    \A k \in 1..Len(attendance.rows) :
        (attendance.rows[k].check_in # NullTime /\ attendance.rows[k].check_out # NullTime)
            => attendance.rows[k].check_out > attendance.rows[k].check_in

DeactivatedEntries(u) ==
    {i \in 1..Len(accounts.audit) :
        accounts.audit[i].user = u /\ accounts.audit[i].action = "DEACTIVATED"}

\* C27: after a delete the user row exists with is_active false and
\* deactivated_at set; a second deactivate or delete changes no field: the
\* first deactivated_at is kept and there is exactly one DEACTIVATED
\* audit-log entry per deactivated user, never a second one.
C27_DeactivateIdempotent ==
    /\ [](\A u \in 1..Len(accounts.users) : Cardinality(DeactivatedEntries(u)) <= 1)
    /\ [](\A q \in AccountRequestIds :
            (accounts.req[q].kind = "delete" /\ accounts.req[q].pc = "done")
              => /\ accounts.req[q].user \in 1..Len(accounts.users)
                 /\ ~accounts.users[accounts.req[q].user].is_active
                 /\ accounts.users[accounts.req[q].user].deactivated_at # NullTime)
    /\ [][\A u \in 1..Len(accounts.users) :
            accounts.users[u].deactivated_at # NullTime
              => accounts'.users[u].deactivated_at = accounts.users[u].deactivated_at]_vars

\* A step that issues a token, and the user it is issued to.
IssuesToken == Len(accounts'.tokens) > Len(accounts.tokens)

IssuedTo == accounts'.tokens[Len(accounts'.tokens)].user

\* C28 as stated: a token is issued only to a user whose row is, when the
\* token is issued, active with deactivated_at null and is_email_verified
\* true, so a deactivated user obtains no token at any later time; a refused
\* login leaves last_login_at unchanged.
C28_TokenOnlyToActiveVerified ==
    [][/\ IssuesToken
          => /\ accounts.users[IssuedTo].is_active
             /\ accounts.users[IssuedTo].deactivated_at = NullTime
             /\ accounts.users[IssuedTo].is_email_verified
       /\ \A q \in AccountRequestIds :
             (accounts'.req[q].status = 401 /\ accounts.req[q] # accounts'.req[q])
               => accounts'.users = accounts.users]_vars

\* C28 amended: a token is issued only when the user row, as the login read
\* it, was active with deactivated_at null and is_email_verified true; a
\* login that reads the row of an inactive user is refused, and a refused
\* login leaves every user row, last_login_at included, unchanged; every
\* token belongs to a user with a verified email and a password, so an
\* invited employee has none before a successful reset_password.
C28_TokenOnlyToUserReadActiveVerified ==
    /\ [](\A i \in 1..Len(accounts.tokens) :
            /\ accounts.users[accounts.tokens[i].user].is_email_verified
            /\ accounts.users[accounts.tokens[i].user].usable_password)
    /\ [][/\ \A q \in AccountRequestIds :
                (accounts.req[q].pc = "issue" /\ accounts'.req[q].status = 200)
                  => /\ IssuesToken /\ IssuedTo = accounts.req[q].user
                     /\ accounts.req[q].instance.is_active
                     /\ accounts.req[q].instance.deactivated_at = NullTime
                     /\ accounts.req[q].instance.is_email_verified
          /\ IssuesToken
                => \E q \in AccountRequestIds :
                      accounts.req[q].pc = "issue" /\ accounts'.req[q].status = 200
          /\ \A q \in AccountRequestIds :
                (/\ accounts.req[q].pc \in {"idle", "done"}
                 /\ accounts'.req[q].kind = "login"
                 /\ accounts'.req[q] # accounts.req[q]
                 /\ ~accounts.users[accounts'.req[q].user].is_active)
                  => accounts'.req[q].status = 401
          /\ \A q \in AccountRequestIds :
                (accounts'.req[q].status = 401 /\ accounts.req[q] # accounts'.req[q])
                  => accounts'.users = accounts.users]_vars

\* The invited employee (the second user) holds a token, after a reset.
C28_Witness ==
    /\ Len(accounts.users) = 2
    /\ \E i \in 1..Len(accounts.tokens) : accounts.tokens[i].user = 2
    /\ \E q \in AccountRequestIds :
           accounts.req[q].kind = "login" /\ accounts.req[q].status = 401

\* C29: a failed attempt changes only error_message, so a record on which no
\* attempt has succeeded, and none is between its two saves, has the result
\* fields of a new record (no score, no skills, no decision, screened_at
\* null) and its Candidate has no match_score and status PENDING.
C29_FailedAttemptKeepsResults ==
    \A r \in DOMAIN resumeDb :
        (/\ ~firstRun[r].taken
         /\ \A t \in TaskIds : ~(tasks[t].rid = r /\ tasks[t].pc = "resume_saved"))
            => /\ ResultFields(resumeDb[r]) = ResultFields(NewResume(0, NoFile))
               /\ resumeDb[r].screened_at = NullTime
               /\ resumeDb[r].candidate \in DOMAIN candidateDb
                      => candidateDb[resumeDb[r].candidate] = NewCandidate

\* C30: every Resume whose decision is non-null has a match_score in [0,100]
\* and is SHORTLISTED exactly when its match_score is at least 60.00,
\* whichever of the task and the HTTP endpoint wrote it last, whatever the
\* job's required skills, and however attempts interleave.
C30_StoredDecisionMatchesScore ==
    \A r \in DOMAIN resumeDb :
        resumeDb[r].decision # NullDecision
            => /\ resumeDb[r].match_score \in 0..10000
               /\ resumeDb[r].decision \in {"SHORTLISTED", "REJECTED"}
               /\ resumeDb[r].decision = "SHORTLISTED" <=> resumeDb[r].match_score >= 6000

\* The endpoint wrote 3 of 5 required skills (60.00) over a task's result.
C30_Witness ==
    \E r \in DOMAIN resumeDb :
        /\ resumeDb[r].match_score = 6000
        /\ resumeDb[r].decision = "SHORTLISTED"
        /\ resumeDb[r].extracted_skills = MockExtracted
        /\ firstRun[r].taken

====
